---------------------------- MODULE Spec2Model ----------------------------
(***************************************************************************)
(* A model of tensorflow/compiler/jit/get_compiler_ir.cc: GetCompilerIr,   *)
(* BuildHLOString, BuildExecutable and                                     *)
(* BuildXlaCompilerArgumentFromFuncBody.                                   *)
(*                                                                         *)
(* C++ indices are 0-based; a vector v is modelled by a sequence s with    *)
(* v[i] = s[i + 1].                                                        *)
(***************************************************************************)
EXTENDS Integers, Sequences, FiniteSets, TLC

(***************************************************************************)
(* Bounds of the model.                                                    *)
(***************************************************************************)
\* largest function arity enumerated for the spec-mode builder
MaxArity == 2
\* arg_attr keys are drawn from 0..MaxKey (a key may lie outside [0, arity))
MaxKey == 2
\* number of client threads that may be inside GetCompilerIr at once
NumCalls == 2
\* total number of GetCompilerIr invocations in one behaviour
MaxCalls == 2
\* number of resource variables of the device's resource manager
NumVars == 2
\* largest number of input handles a caller supplies
MaxInputs == 3

(***************************************************************************)
(* IrExportStage and the two producer families of BuildHLOString.          *)
(***************************************************************************)
FromProgramStages == {"HLO", "HLO_NO_METADATA", "HLO_SERIALIZED"}

FromExecutableStages ==
    {"OPTIMIZED_HLO", "OPTIMIZED_HLO_SERIALIZED",
     "OPTIMIZED_HLO_PROTO_SERIALIZED", "OPTIMIZED_HLO_DOT"}

IrExportStage == FromProgramStages \cup FromExecutableStages

(***************************************************************************)
(* Function bodies.  input_arg is the signature (type and name per input);  *)
(* arg_attr maps an unsigned index key to the entry's "_output_shapes"     *)
(* annotation: a shape, "Bad" (a shape proto BuildTensorShape rejects) or  *)
(* "None" (the entry has no "_output_shapes" attribute).                   *)
(***************************************************************************)
Shapes == {"f32[2,2]", "f32[3]"}

Annotations == Shapes \cup {"Bad", "None"}

InputArgs ==
    << [type |-> "DT_FLOAT", name |-> "arg0"],
       [type |-> "DT_INT32", name |-> "arg1"],
       [type |-> "DT_RESOURCE", name |-> "arg2"],
       [type |-> "DT_HALF", name |-> "arg3"] >>

Signature(n) == SubSeq(InputArgs, 1, n)

FunctionBodies ==
    { [input_arg |-> Signature(n), arg_attr |-> a] :
        n \in 0..MaxArity,
        a \in UNION { [K -> Annotations] : K \in SUBSET (0..MaxKey) } }

Arity(fbody) == Len(fbody.input_arg)

(***************************************************************************)
(* BuildXlaCompilerArgumentFromFuncBody.                                   *)
(*                                                                         *)
(* `shapes` is reserved, never resized: its size stays 0, so every         *)
(* shapes[idx] (the writes of the loop and the reads of the second loop)   *)
(* indexes past the end of the vector.  That is undefined behaviour; the   *)
(* outcomes modelled are                                                   *)
(*   - a checked build (hardened = TRUE) traps at the first shapes[idx];   *)
(*   - an unchecked build (hardened = FALSE) writes into the reserved      *)
(*     storage when idx < capacity = arity, where the later read finds it; *)
(*     a write with idx >= capacity lands outside the allocation and       *)
(*     either traps or goes unnoticed; a slot never written reads as an    *)
(*     arbitrary shape.                                                    *)
(* arg_attr is a protobuf map: its iteration order is unspecified, so the  *)
(* loop visits the entries in any order.                                   *)
(*                                                                         *)
(* The operator yields the set of possible outcomes.  An outcome records   *)
(* the status, the descriptors, and every index at which shapes[idx] was   *)
(* formed (writes).                                                        *)
(***************************************************************************)
Outcome(st, args, writes) ==
    [status |-> st, args |-> args, writes |-> writes]

\* the status of a failed TF_RET_CHECK (lines 76, 138 and 162): an Internal
\* error
RetCheckFailure == "Internal"

\* the count check written as one more TF_RET_CHECK
ArgAttrCountErrorAsRetCheck == RetCheckFailure

\* lines 144-149
ArgAttrCountError == "InvalidArgument"

\* the status TensorShape::BuildTensorShape returns for a malformed proto
BuildTensorShapeError == "InvalidArgument"

Uninit == "uninit"

\* shapes.size(): the vector is default-constructed (line 150) and only
\* reserved (line 151), so it holds no element
ShapesSize == 0

\* lines 166-175: one descriptor per input, shape read from shapes[input_num]
BuildArguments(fbody, slots) ==
    [ i \in 1..Arity(fbody) |->
        [kind  |-> "kParameter",
         type  |-> fbody.input_arg[i].type,
         shape |-> slots[i],
         name  |-> fbody.input_arg[i].name] ]

\* the values a read of shapes[i] can produce: the value written there, or
\* anything when the slot was never written
SlotReads(slots) ==
    { s \in [DOMAIN slots -> Shapes \cup {"garbage"}] :
        \A i \in DOMAIN slots : slots[i] # Uninit => s[i] = slots[i] }

RECURSIVE ShapeLoop(_, _, _, _, _)
\* lines 152-163, from a state where the keys in `rest` are still to visit
ShapeLoop(fbody, hardened, rest, slots, writes) ==
    IF rest = {}
    THEN \* lines 166-175
         IF hardened /\ Arity(fbody) > ShapesSize
         THEN {Outcome("crash", <<>>, writes)}
         ELSE { Outcome("OK", BuildArguments(fbody, s), writes) :
                  s \in SlotReads(slots) }
    ELSE UNION {
           LET annot == fbody.arg_attr[idx]
               w     == writes \cup {idx}
           IN  IF annot = "None"
               THEN \* line 162
                    {Outcome(RetCheckFailure, <<>>, writes)}
               ELSE IF hardened /\ idx >= ShapesSize
               THEN \* &shapes[idx] with idx >= size()
                    {Outcome("crash", <<>>, w)}
               ELSE IF annot = "Bad"
               THEN \* line 157
                    {Outcome(BuildTensorShapeError, <<>>, w)}
               ELSE IF idx < Arity(fbody)
               THEN ShapeLoop(fbody, hardened, rest \ {idx},
                              [slots EXCEPT ![idx + 1] = annot], w)
               ELSE {Outcome("crash", <<>>, w)} \cup
                    ShapeLoop(fbody, hardened, rest \ {idx}, slots, w)
           : idx \in rest }

BuildXlaCompilerArgumentFromFuncBody(fbody) ==
    IF Cardinality(DOMAIN fbody.arg_attr) # Arity(fbody)
    THEN {Outcome(ArgAttrCountError, <<>>, {})}
    ELSE UNION { ShapeLoop(fbody, h, DOMAIN fbody.arg_attr,
                           [i \in 1..Arity(fbody) |-> Uninit], {})
                 : h \in BOOLEAN }


(***************************************************************************)
(* The environment of GetCompilerIr: the device, the function library of   *)
(* the runtime, the resource variables and the callers' requests.          *)
(***************************************************************************)
Procs == 1..NumCalls

Vars == 1..NumVars

\* Device::device_type() and tensorflow_accelerator_device_info(): the info
\* is absent (a null pointer), present without a stream, or present with one
DeviceTypes == {"CPU", "GPU", "TPU"}

AccelInfos == {"absent", "nostream", "stream"}

Devices == [device_type : DeviceTypes, accel : AccelInfos]

\* the functions registered with the runtime, with the classification the
\* resolver (GetBodyAndConstantsAndResources) returns for each: both index
\* lists sorted ascending and disjoint
Library ==
    [ f \in {"f_plain", "f_mixed", "f_vars"} |->
        CASE f = "f_plain" ->
               [fbody |-> [input_arg |-> Signature(2),
                           arg_attr  |-> (0 :> "f32[2,2]" @@ 1 :> "f32[3]")],
                constant_arg_indices |-> <<>>,
                resource_arg_indices |-> <<>>]
          [] f = "f_mixed" ->
               [fbody |-> [input_arg |-> Signature(2),
                           arg_attr  |-> (0 :> "f32[2,2]")],
                constant_arg_indices |-> <<0>>,
                resource_arg_indices |-> <<1>>]
          [] f = "f_vars" ->
               [fbody |-> [input_arg |-> Signature(2),
                           arg_attr  |-> (0 :> "f32[3]" @@ 1 :> "None")],
                constant_arg_indices |-> <<>>,
                resource_arg_indices |-> <<0, 1>>] ]

FuncNames == DOMAIN Library \cup {"f_unregistered"}

Range(s) == { s[i] : i \in DOMAIN s }

ResourceIndicesOf(name) ==
    IF name \in DOMAIN Library
    THEN Range(Library[name].resource_arg_indices)
    ELSE {}

TensorHandle(v) == [kind |-> IF v = 0 THEN "tensor" ELSE "resource", var |-> v]

\* the input handles a caller may pass for `name`: any count up to MaxInputs;
\* a resource-backed position holds a handle of a variable, no variable twice
HandlesFor(name) ==
    UNION {
      { h \in [1..n -> { TensorHandle(v) : v \in 0..NumVars }] :
          /\ \A i \in 1..n :
               (h[i].kind = "resource") <=> ((i - 1) \in ResourceIndicesOf(name))
          /\ \A i, j \in 1..n :
               (i # j /\ h[i].kind = "resource") => h[i].var # h[j].var }
      : n \in 0..MaxInputs }

Requests ==
    UNION { [stage : IrExportStage, func_name : {name},
             inputs_handles : HandlesFor(name)] : name \in FuncNames }

\* the requests issued by concurrent callers: f_vars on the first two
\* variables, passed in either order, and f_plain without inputs
ConcurrentRequests ==
    { r \in Requests :
        /\ r.stage = "OPTIMIZED_HLO"
        /\ \/ /\ r.func_name = "f_vars"
              /\ r.inputs_handles \in
                   { <<TensorHandle(1), TensorHandle(2)>>,
                     <<TensorHandle(2), TensorHandle(1)>> }
           \/ r.func_name = "f_plain" /\ r.inputs_handles = <<>> }

(***************************************************************************)
(* State.                                                                  *)
(*   fbody_in, built : input and outcome of a stand-alone run of the       *)
(*                     spec-mode builder                                   *)
(*   dev             : the device of the calls                             *)
(*   varOwner        : per resource variable, the call holding its lock    *)
(*                     (0: unlocked)                                       *)
(*   rmgr            : the resource manager's compiler entries, pairs      *)
(*                     <<key, instance>>                                   *)
(*   refcount        : reference count of each constructed instance        *)
(*   factory_runs    : number of times BuildXlaDeviceCompiler has run      *)
(*   calls           : number of GetCompilerIr invocations so far          *)
(*   crashed         : the process was terminated by a trap                *)
(*   frame           : per calling thread, the locals of its GetCompilerIr *)
(*                     activation, the position in it, and a history of    *)
(*                     the collaborators it invoked                        *)
(***************************************************************************)
VARIABLES fbody_in, built, dev, varOwner, rmgr, refcount, factory_runs,
          calls, crashed, frame

vars == <<fbody_in, built, dev, varOwner, rmgr, refcount, factory_runs,
          calls, crashed, frame>>

pipeline_vars == <<dev, varOwner, rmgr, refcount, factory_runs, calls,
                   crashed, frame>>

NoOutcome == Outcome("none", <<>>, {})

NoResult == [status |-> "none", out |-> ""]

Result(st, out) == [status |-> st, out |-> out]

Ev(op, ok) == [op |-> op, ok |-> ok]

IdleFrame ==
    [pc |-> "idle", stage |-> "HLO", func_name |-> "f_plain",
     inputs_handles |-> <<>>, inputs |-> <<>>, variable_infos |-> <<>>,
     lock_status |-> "none", xla_device_compiler |-> 0,
     options |-> "none", args |-> <<>>, result |-> NoResult,
     trace |-> <<>>, lockOrder |-> <<>>, builds |-> <<>>, compiled |-> <<>>]

\* the mode taken from "at most one input" instead of "no input"
using_tensor_spec_single(f) == Len(f.inputs_handles) <= 1

\* line 183
using_tensor_spec(f) == f.inputs_handles = <<>>

Body(f) == Library[f.func_name]

(***************************************************************************)
(* Leaving GetCompilerIr.                                                  *)
(***************************************************************************)
\* ~VariableInfo of every element of variable_infos: a lock the call holds
\* is released
VariableInfoDtor(p) ==
    [ v \in Vars |-> IF varOwner[v] = p THEN 0 ELSE varOwner[v] ]

\* core::ScopedUnref: drops the caller's reference, if one was taken
ScopedUnref(inst) ==
    IF inst = 0
    THEN refcount
    ELSE [refcount EXCEPT ![inst] = @ - 1]

\* a return that cleans up by hand on the success path only: an error path
\* keeps the locks and the reference
ReturnLeakingOnError(p, f, res) ==
    /\ frame' = [frame EXCEPT ![p] =
                   [f EXCEPT !.pc = "done", !.result = res,
                             !.xla_device_compiler =
                                IF res.status = "OK" THEN 0 ELSE @,
                             !.variable_infos = <<>>]]
    /\ varOwner' = IF res.status = "OK" THEN VariableInfoDtor(p) ELSE varOwner
    /\ refcount' = IF res.status = "OK"
                   THEN ScopedUnref(f.xla_device_compiler)
                   ELSE refcount

\* a `return` of GetCompilerIr (every TF_RETURN_IF_ERROR and line 287): the
\* locals die in reverse order of declaration, xla_device_compiler_ref
\* (line 250) and variable_infos (line 215) among them
Return(p, f, res) ==
    /\ frame' = [frame EXCEPT ![p] =
                   [f EXCEPT !.pc = "done", !.result = res,
                             !.xla_device_compiler = 0,
                             !.variable_infos = <<>>]]
    /\ varOwner' = VariableInfoDtor(p)
    /\ refcount' = ScopedUnref(f.xla_device_compiler)

\* a trap ends the process: no destructor runs, no call continues
Crash(p, f) ==
    /\ frame' = [frame EXCEPT ![p] = [f EXCEPT !.pc = "crashed"]]
    /\ crashed' = TRUE

Goto(p, f, next) ==
    frame' = [frame EXCEPT ![p] = [f EXCEPT !.pc = next]]

Traced(f, op, ok) == [f EXCEPT !.trace = Append(@, Ev(op, ok))]

(***************************************************************************)
(* GetCompilerIr, lines 178-288, one action per step.                      *)
(***************************************************************************)
\* a client thread enters GetCompilerIr with request r
Enter(p, r) ==
    /\ ~crashed
    /\ frame[p].pc = "idle"
    /\ calls < MaxCalls
    /\ calls' = calls + 1
    /\ frame' = [frame EXCEPT ![p] =
                   [IdleFrame EXCEPT !.pc = "check", !.stage = r.stage,
                                     !.func_name = r.func_name,
                                     !.inputs_handles = r.inputs_handles]]
    /\ UNCHANGED <<fbody_in, built, dev, varOwner, rmgr, refcount,
                   factory_runs, crashed>>

\* one caller at a time, any request
Call(p) ==
    /\ \A q \in Procs : frame[q].pc = "idle"
    /\ \E r \in Requests : Enter(p, r)

\* callers that do not wait for each other
CallConcurrent(p) ==
    \E r \in ConcurrentRequests : Enter(p, r)

\* the stage list with HLO_SERIALIZED forgotten
is_tfrt_tpu_supported_stage_short(stage) ==
    \/ stage = "HLO"
    \/ stage = "HLO_NO_METADATA"

\* lines 187-191
is_tfrt_tpu_supported_stage(stage) ==
    \/ stage = "HLO"
    \/ stage = "HLO_NO_METADATA"
    \/ stage = "HLO_SERIALIZED"

\* line 195, dev->tensorflow_accelerator_device_info()->stream == nullptr:
\* the pointer is dereferenced unchecked, so with the info absent the read
\* is undefined: it traps, or yields either answer
StreamIsNullUnchecked(d) ==
    CASE d.accel = "stream"   -> {"false"}
      [] d.accel = "nostream" -> {"true"}
      [] d.accel = "absent"   -> {"true", "false", "crash"}

\* lines 194-199
CheckStage(p) ==
    LET f == frame[p] IN
    /\ ~crashed
    /\ f.pc = "check"
    /\ IF dev.device_type = "CPU"
       THEN /\ Goto(p, f, "resolve")
            /\ UNCHANGED <<varOwner, refcount, crashed>>
       ELSE \E null \in StreamIsNullUnchecked(dev) :
              IF null = "crash"
              THEN Crash(p, f) /\ UNCHANGED <<varOwner, refcount>>
              ELSE IF null = "true" /\ ~is_tfrt_tpu_supported_stage(f.stage)
              THEN Return(p, f, Result("Internal", "")) /\ UNCHANGED crashed
              ELSE /\ Goto(p, f, "resolve")
                   /\ UNCHANGED <<varOwner, refcount, crashed>>
    /\ UNCHANGED <<fbody_in, built, dev, rmgr, factory_runs, calls>>

\* the descriptors of a spec-mode call built right after the resolver,
\* ahead of the cache lookup and the options
ResolveBuilderFirst(p) ==
    LET f == frame[p] IN
    /\ ~crashed
    /\ f.pc = "resolve"
    /\ IF f.func_name \notin DOMAIN Library
       THEN Return(p, Traced(f, "Resolver", FALSE), Result("NotFound", ""))
       ELSE /\ Goto(p, Traced(f, "Resolver", TRUE),
                    IF using_tensor_spec(f) THEN "buildargs" ELSE "collect")
            /\ UNCHANGED <<varOwner, refcount>>
    /\ UNCHANGED <<fbody_in, built, dev, rmgr, factory_runs, calls, crashed>>

\* lines 200-216: GetBodyAndConstantsAndResources, then the mode branch
Resolve(p) ==
    LET f == frame[p] IN
    /\ ~crashed
    /\ f.pc = "resolve"
    /\ IF f.func_name \notin DOMAIN Library
       THEN Return(p, Traced(f, "Resolver", FALSE), Result("NotFound", ""))
       ELSE /\ Goto(p, Traced(f, "Resolver", TRUE),
                    IF using_tensor_spec(f) THEN "cache" ELSE "collect")
            /\ UNCHANGED <<varOwner, refcount>>
    /\ UNCHANGED <<fbody_in, built, dev, rmgr, factory_runs, calls, crashed>>

\* the search made with a one-based position
IsConstantArgOneBased(f, i) == (i + 1) \in Range(Body(f).constant_arg_indices)

\* absl::c_binary_search(constant_arg_indices, i), line 225
IsConstantArg(f, i) == i \in Range(Body(f).constant_arg_indices)

\* lines 220-234, one iteration: i is the number of inputs collected so far
CollectInput(p) ==
    LET f == frame[p]
        i == Len(f.inputs)
    IN
    /\ ~crashed
    /\ f.pc = "collect"
    /\ i < Len(f.inputs_handles)
    /\ \/ \* line 224 fails
          Return(p, Traced(f, "Tensor", FALSE), Result("TensorError", ""))
       \/ \* line 228 fails
          /\ IsConstantArg(f, i)
          /\ Return(p, Traced(Traced(f, "Tensor", TRUE), "CopyToDevice", FALSE),
                    Result("CopyError", ""))
       \/ /\ IF IsConstantArg(f, i)
             THEN Goto(p, [Traced(Traced(f, "Tensor", TRUE), "CopyToDevice", TRUE)
                             EXCEPT !.inputs =
                               Append(@, [handle |-> i, host_copy |-> TRUE])],
                       "collect")
             ELSE Goto(p, [Traced(f, "Tensor", TRUE)
                             EXCEPT !.inputs =
                               Append(@, [handle |-> i, host_copy |-> FALSE])],
                       "collect")
          /\ UNCHANGED <<varOwner, refcount>>
    /\ UNCHANGED <<fbody_in, built, dev, rmgr, factory_runs, calls, crashed>>

\* the resource indices handed to GetVariableInfosFromInputs, line 237
VariableIndices(f) == Body(f).resource_arg_indices

\* GetVariableInfosFromInputs: one VariableInfo per index, in the order given
VariableInfos(f, indices) ==
    [ k \in 1..Len(indices) |->
        [index |-> indices[k],
         var   |-> f.inputs_handles[f.inputs[indices[k] + 1].handle + 1].var] ]

\* lines 236-237
GetVariableInfosFromInputs(p) ==
    LET f == frame[p]
        indices == VariableIndices(f)
    IN
    /\ ~crashed
    /\ f.pc = "collect"
    /\ Len(f.inputs) = Len(f.inputs_handles)
    /\ \/ \* an index without an input, or a failed lookup
          /\ indices # <<>>
          /\ Return(p, Traced(f, "GetVariableInfos", FALSE),
                    Result("VariableLookupError", ""))
       \/ /\ \A k \in 1..Len(indices) : indices[k] < Len(f.inputs)
          /\ Goto(p, [Traced(f, "GetVariableInfos", TRUE)
                        EXCEPT !.variable_infos = VariableInfos(f, indices)],
                  "lock")
          /\ UNCHANGED <<varOwner, refcount>>
    /\ UNCHANGED <<fbody_in, built, dev, rmgr, factory_runs, calls, crashed>>

(***************************************************************************)
(* LockVariables, line 238.                                                *)
(***************************************************************************)
Held(p, f) == { k \in 1..Len(f.variable_infos) :
                  varOwner[f.variable_infos[k].var] = p }

NotHeld(p, f) == (1..Len(f.variable_infos)) \ Held(p, f)

\* the locks taken from the largest argument index down
NextToLockDescending(infos, K) ==
    CHOOSE k \in K : \A j \in K : infos[k].index >= infos[j].index

\* the next lock to take: the one of the smallest argument index
NextToLock(infos, K) ==
    CHOOSE k \in K : \A j \in K : infos[k].index <= infos[j].index

\* takes one more lock, waiting while another call holds it
LockAcquire(p) ==
    LET f == frame[p] IN
    /\ ~crashed
    /\ f.pc = "lock"
    /\ NotHeld(p, f) # {}
    /\ LET k == NextToLock(f.variable_infos, NotHeld(p, f))
           v == f.variable_infos[k].var
       IN  /\ varOwner[v] = 0
           /\ varOwner' = [varOwner EXCEPT ![v] = p]
           /\ Goto(p, [f EXCEPT !.lockOrder =
                                  Append(@, f.variable_infos[k].index)],
                   "lock")
    /\ UNCHANGED <<fbody_in, built, dev, rmgr, refcount, factory_runs, calls,
                   crashed>>

\* an acquisition fails and the locks taken so far are kept
LockFailKeeping(p) ==
    LET f == frame[p] IN
    /\ ~crashed
    /\ f.pc = "lock"
    /\ NotHeld(p, f) # {}
    /\ Goto(p, [Traced(f, "LockVariables", FALSE)
                  EXCEPT !.lock_status = "LockError"], "locked")
    /\ UNCHANGED <<fbody_in, built, dev, varOwner, rmgr, refcount,
                   factory_runs, calls, crashed>>

\* an acquisition fails: the locks taken so far are released, the error is
\* returned
LockFail(p) ==
    LET f == frame[p] IN
    /\ ~crashed
    /\ f.pc = "lock"
    /\ NotHeld(p, f) # {}
    /\ varOwner' = VariableInfoDtor(p)
    /\ Goto(p, [Traced(f, "LockVariables", FALSE)
                  EXCEPT !.lock_status = "LockError"], "locked")
    /\ UNCHANGED <<fbody_in, built, dev, rmgr, refcount, factory_runs, calls,
                   crashed>>

\* every lock is held: LockVariables returns OK
LockDone(p) ==
    LET f == frame[p] IN
    /\ ~crashed
    /\ f.pc = "lock"
    /\ NotHeld(p, f) = {}
    /\ Goto(p, [Traced(f, "LockVariables", TRUE)
                  EXCEPT !.lock_status = "OK"], "locked")
    /\ UNCHANGED <<fbody_in, built, dev, varOwner, rmgr, refcount,
                   factory_runs, calls, crashed>>

\* variable_infos declared inside the block of line 216: it dies, and the
\* locks go, at line 239
AfterLockVariablesScoped(p) ==
    LET f == frame[p] IN
    /\ ~crashed
    /\ f.pc = "locked"
    /\ IF f.lock_status # "OK"
       THEN Return(p, f, Result(f.lock_status, ""))
       ELSE /\ Goto(p, f, "cache")
            /\ varOwner' = VariableInfoDtor(p)
            /\ UNCHANGED refcount
    /\ UNCHANGED <<fbody_in, built, dev, rmgr, factory_runs, calls, crashed>>

\* TF_RETURN_IF_ERROR of line 238, and the end of the block at line 239
AfterLockVariables(p) ==
    LET f == frame[p] IN
    /\ ~crashed
    /\ f.pc = "locked"
    /\ IF f.lock_status # "OK"
       THEN Return(p, f, Result(f.lock_status, ""))
       ELSE Goto(p, f, "cache") /\ UNCHANGED <<varOwner, refcount>>
    /\ UNCHANGED <<fbody_in, built, dev, rmgr, factory_runs, calls, crashed>>

(***************************************************************************)
(* The device compiler of the resource manager, lines 241-250.             *)
(***************************************************************************)
\* an entry per function instead of one per device
CacheKeyPerFunction(f) == <<"default_container", f.func_name>>

\* the container and name of the entry, line 245
CacheKey(f) == <<"default_container", "xla_device_compiler">>

Lookup(key) == { e \in rmgr : e[1] = key }

\* ResourceMgr::LookupOrCreate with the creator BuildXlaDeviceCompiler, done
\* under the manager's lock: an existing entry is returned with one more
\* reference; otherwise the creator runs, and its instance, when it made
\* one, is entered (one reference for the manager, one for the caller)
LookupOrCreate(p) ==
    LET f   == frame[p]
        key == CacheKey(f)
    IN
    /\ ~crashed
    /\ f.pc = "cache"
    /\ IF Lookup(key) # {}
       THEN LET inst == (CHOOSE e \in Lookup(key) : TRUE)[2] IN
            /\ refcount' = [refcount EXCEPT ![inst] = @ + 1]
            /\ Goto(p, [Traced(f, "LookupOrCreate", TRUE)
                          EXCEPT !.xla_device_compiler = inst], "options")
            /\ UNCHANGED <<varOwner, rmgr, factory_runs>>
       ELSE /\ factory_runs' = factory_runs + 1
            /\ \/ \* BuildXlaDeviceCompiler fails
                  /\ Return(p, Traced(f, "LookupOrCreate", FALSE),
                            Result("DeviceCompilerError", ""))
                  /\ UNCHANGED rmgr
               \/ LET inst == Len(refcount) + 1 IN
                  /\ refcount' = Append(refcount, 2)
                  /\ rmgr' = rmgr \cup {<<key, inst>>}
                  /\ Goto(p, [Traced(f, "LookupOrCreate", TRUE)
                                EXCEPT !.xla_device_compiler = inst], "options")
                  /\ UNCHANGED varOwner
    /\ UNCHANGED <<fbody_in, built, dev, calls, crashed>>

(***************************************************************************)
(* Compiler options, lines 252-265.                                        *)
(***************************************************************************)
\* lines 252-256: the stream, read behind a null check
Stream(d) == IF d.accel = "stream" THEN "stream" ELSE "nullptr"

\* XlaPlatformInfoFromDevice(dev).device_type()
PlatformDeviceType(d) == d.device_type

\* the choice made on the stream alone, whatever the platform
CompilerOptionsByStreamOnly(d) ==
    IF Stream(d) = "nullptr"
    THEN "GenerateTfrtTpuCompilerOptions"
    ELSE "GenerateCompilerOptions(has_ref_vars=false)"

\* lines 258-265
CompilerOptions(d) ==
    IF PlatformDeviceType(d) = "TPU" /\ Stream(d) = "nullptr"
    THEN "GenerateTfrtTpuCompilerOptions"
    ELSE "GenerateCompilerOptions(has_ref_vars=false)"

GenerateOptions(p) ==
    LET f == frame[p] IN
    /\ ~crashed
    /\ f.pc = "options"
    /\ Goto(p, [Traced(f, "CompilerOptions", TRUE)
                  EXCEPT !.options = CompilerOptions(dev)], "buildargs")
    /\ UNCHANGED <<fbody_in, built, dev, varOwner, rmgr, refcount,
                   factory_runs, calls, crashed>>

(***************************************************************************)
(* Argument descriptors, lines 273-280.                                    *)
(***************************************************************************)
\* XlaComputationLaunchContext::BuildXlaCompilerArguments: one descriptor
\* per collected input, classified by the constant and resource indices
BuildXlaCompilerArguments(f) ==
    [ i \in 1..Len(f.inputs) |->
        [kind  |-> IF IsConstantArg(f, i - 1) THEN "kConstant"
                   ELSE IF \E k \in 1..Len(f.variable_infos) :
                             f.variable_infos[k].index = i - 1
                        THEN "kResource"
                        ELSE "kParameter",
         type  |-> "runtime",
         shape |-> "runtime",
         name  |-> ""] ]

BuildArgs(p) ==
    LET f == frame[p] IN
    /\ ~crashed
    /\ f.pc = "buildargs"
    /\ IF using_tensor_spec(f)
       THEN \E o \in BuildXlaCompilerArgumentFromFuncBody(Body(f).fbody) :
              IF o.status = "crash"
              THEN Crash(p, Traced(f, "SpecBuilder", FALSE))
                   /\ UNCHANGED <<varOwner, refcount>>
              ELSE IF o.status # "OK"
              THEN Return(p, Traced(f, "SpecBuilder", FALSE),
                          Result(o.status, ""))
                   /\ UNCHANGED crashed
              ELSE /\ Goto(p, [Traced(f, "SpecBuilder", TRUE)
                                 EXCEPT !.args = o.args], "compile")
                   /\ UNCHANGED <<varOwner, refcount, crashed>>
       ELSE /\ \/ Return(p, Traced(f, "ValueBuilder", FALSE),
                         Result("ArgumentError", ""))
               \/ /\ Goto(p, [Traced(f, "ValueBuilder", TRUE)
                                EXCEPT !.args = BuildXlaCompilerArguments(f)],
                          "compile")
                  /\ UNCHANGED <<varOwner, refcount>>
            /\ UNCHANGED crashed
    /\ UNCHANGED <<fbody_in, built, dev, rmgr, factory_runs, calls>>

\* the status of CompileFunction dropped: the exporter runs on a failed
\* compilation
CompileFunctionIgnoringError(p) ==
    LET f == frame[p]
        g == [f EXCEPT !.compiled = Append(@, f.args)]
    IN
    /\ ~crashed
    /\ f.pc = "compile"
    /\ \E ok \in BOOLEAN : Goto(p, Traced(g, "CompileFunction", ok), "export")
    /\ UNCHANGED <<fbody_in, built, dev, varOwner, rmgr, refcount,
                   factory_runs, calls, crashed>>

(***************************************************************************)
(* Compilation, lines 282-285.                                             *)
(***************************************************************************)
CompileFunction(p) ==
    LET f == frame[p]
        g == [f EXCEPT !.compiled = Append(@, f.args)]
    IN
    /\ ~crashed
    /\ f.pc = "compile"
    /\ \/ Return(p, Traced(g, "CompileFunction", FALSE),
                 Result("CompileError", ""))
       \/ /\ Goto(p, Traced(g, "CompileFunction", TRUE), "export")
          /\ UNCHANGED <<varOwner, refcount>>
    /\ UNCHANGED <<fbody_in, built, dev, rmgr, factory_runs, calls, crashed>>

(***************************************************************************)
(* BuildExecutable, lines 46-78, and BuildHLOString, lines 80-134: the set *)
(* of outcomes.  `builds` lists the BuildExecutable invocations: the       *)
(* xla_embed_ir_in_executable flag passed, what LocalClient::Compile       *)
(* returned, and the status of the invocation.                             *)
(***************************************************************************)
\* how many executables LocalClient::Compile may return
ExecutableCounts == {0, 1, 2}

\* lines 72-75, local_client->Compile: an error, or a vector of executables
LocalClientCompile ==
    {[status |-> "ExecutableCompileError", size |-> 0]}
    \cup
    { [status |-> "OK", size |-> n] : n \in ExecutableCounts }

\* the first executable returned whenever there is at least one
BuildExecutableFirstOfMany(xla_embed_ir_in_executable) ==
    { [status  |-> IF c.status # "OK" THEN c.status
                   ELSE IF c.size >= 1 THEN "OK"
                   ELSE RetCheckFailure,
       embed   |-> xla_embed_ir_in_executable,
       compile |-> c] : c \in LocalClientCompile }

\* lines 72-77
BuildExecutable(xla_embed_ir_in_executable) ==
    { [status  |-> IF c.status # "OK" THEN c.status
                   ELSE IF c.size = 1 THEN "OK"
                   ELSE RetCheckFailure,
       embed   |-> xla_embed_ir_in_executable,
       compile |-> c] : c \in LocalClientCompile }

Exported(st, out, builds, events) ==
    [status |-> st, out |-> out, builds |-> builds, events |-> events]

\* lines 84-104
FromProgram(stage) ==
    { Exported("ProgramShapeError", "", <<>>, <<Ev("GetProgramShape", FALSE)>>),
      Exported("CreateFromProtoError", "", <<>>,
               <<Ev("GetProgramShape", TRUE), Ev("CreateFromProto", FALSE)>>),
      Exported("OK",
               CASE stage = "HLO_SERIALIZED" -> "module proto bytes"
                 [] stage = "HLO_NO_METADATA" -> "module text without metadata"
                 [] OTHER -> "module text",
               <<>>,
               <<Ev("GetProgramShape", TRUE), Ev("CreateFromProto", TRUE)>>) }

\* the flag set for both serialized executable stages
EmbedIrArgumentForSerialized(stage) ==
    stage \in {"OPTIMIZED_HLO_SERIALIZED", "OPTIMIZED_HLO_PROTO_SERIALIZED"}

\* the xla_embed_ir_in_executable argument of the BuildExecutable call of
\* each stage: lines 108, 124 (defaulted, line 50) and lines 118-119 (true)
EmbedIrArgument(stage) == stage = "OPTIMIZED_HLO_PROTO_SERIALIZED"

\* lines 105-132
FromExecutable(stage) ==
    UNION {
      IF b.status # "OK"
      THEN {Exported(b.status, "", <<b>>,
                     <<Ev("BuildExecutable", FALSE)>>)}
      ELSE CASE stage = "OPTIMIZED_HLO" ->
                  {Exported("OK", "optimized module text", <<b>>,
                            <<Ev("BuildExecutable", TRUE)>>)}
             [] stage = "OPTIMIZED_HLO_SERIALIZED" ->
                  {Exported("OK", "optimized module proto bytes", <<b>>,
                            <<Ev("BuildExecutable", TRUE)>>)}
             [] stage = "OPTIMIZED_HLO_PROTO_SERIALIZED" ->
                  {Exported("OK", "hlo_proto bytes", <<b>>,
                            <<Ev("BuildExecutable", TRUE)>>)}
             [] stage = "OPTIMIZED_HLO_DOT" ->
                  {Exported("RenderError", "", <<b>>,
                            <<Ev("BuildExecutable", TRUE),
                              Ev("RenderGraph", FALSE)>>),
                   Exported("OK", "dot graph", <<b>>,
                            <<Ev("BuildExecutable", TRUE),
                              Ev("RenderGraph", TRUE)>>)}
      : b \in BuildExecutable(EmbedIrArgument(stage)) }

\* the switch with the DOT stage rendered from the unoptimized program
BuildHLOStringDotFromProgram(stage) ==
    IF stage \in {"HLO", "HLO_NO_METADATA", "HLO_SERIALIZED",
                  "OPTIMIZED_HLO_DOT"}
    THEN FromProgram(stage)
    ELSE FromExecutable(stage)

\* the switch of line 83
BuildHLOString(stage) ==
    IF stage \in {"HLO", "HLO_NO_METADATA", "HLO_SERIALIZED"}
    THEN FromProgram(stage)
    ELSE FromExecutable(stage)

\* line 287
Export(p) ==
    LET f == frame[p] IN
    /\ ~crashed
    /\ f.pc = "export"
    /\ \E e \in BuildHLOString(f.stage) :
         Return(p, [f EXCEPT !.trace = @ \o e.events, !.builds = e.builds],
                Result(e.status, e.out))
    /\ UNCHANGED <<fbody_in, built, dev, rmgr, factory_runs, calls, crashed>>

\* the caller takes the result; the thread is free for another call
Finish(p) ==
    /\ ~crashed
    /\ frame[p].pc = "done"
    /\ frame' = [frame EXCEPT ![p] = IdleFrame]
    /\ UNCHANGED <<fbody_in, built, dev, varOwner, rmgr, refcount,
                   factory_runs, calls, crashed>>

(***************************************************************************)
(* A stand-alone run of the spec-mode builder on any function body.         *)
(***************************************************************************)
RunBuilder ==
    /\ built = NoOutcome
    /\ built' \in BuildXlaCompilerArgumentFromFuncBody(fbody_in)
    /\ UNCHANGED <<fbody_in, pipeline_vars>>

(***************************************************************************)
(* Specifications.                                                         *)
(***************************************************************************)
InitPipeline ==
    /\ varOwner = [v \in Vars |-> 0]
    /\ rmgr = {}
    /\ refcount = <<>>
    /\ factory_runs = 0
    /\ calls = 0
    /\ crashed = FALSE
    /\ frame = [p \in Procs |-> IdleFrame]

NoBuilderRun ==
    /\ fbody_in = [input_arg |-> <<>>, arg_attr |-> <<>>]
    /\ built = NoOutcome

Init ==
    /\ NoBuilderRun
    /\ dev \in Devices
    /\ InitPipeline

InitConcurrent ==
    /\ NoBuilderRun
    /\ dev = [device_type |-> "GPU", accel |-> "stream"]
    /\ InitPipeline

InitBuilder ==
    /\ fbody_in \in FunctionBodies
    /\ built = NoOutcome
    /\ dev = [device_type |-> "CPU", accel |-> "absent"]
    /\ InitPipeline

Step(p) ==
    \/ CheckStage(p)
    \/ Resolve(p)
    \/ CollectInput(p)
    \/ GetVariableInfosFromInputs(p)
    \/ LockAcquire(p)
    \/ LockFail(p)
    \/ LockDone(p)
    \/ AfterLockVariables(p)
    \/ LookupOrCreate(p)
    \/ GenerateOptions(p)
    \/ BuildArgs(p)
    \/ CompileFunction(p)
    \/ Export(p)
    \/ Finish(p)

Next == \E p \in Procs : Call(p) \/ Step(p)

NextConcurrent == \E p \in Procs : CallConcurrent(p) \/ Step(p)

\* callers one after another, every request, every device
Spec == Init /\ [][Next]_vars

\* callers that overlap
SpecConcurrent == InitConcurrent /\ [][NextConcurrent]_vars

\* the spec-mode builder alone, over every function body
SpecBuilder == InitBuilder /\ [][RunBuilder]_vars

(***************************************************************************)
(* Properties.                                                             *)
(***************************************************************************)
InTrace(f, op, ok) == \E i \in 1..Len(f.trace) : f.trace[i] = Ev(op, ok)

Holders(inst) == { q \in Procs : frame[q].xla_device_compiler = inst }

LocksOf(p) == { v \in Vars : varOwner[v] = p }

\* C1: when GetCompilerIr has returned, on the success path and on every
\* failure path alike, the call holds no resource-variable lock and no
\* reference to the device compiler: each instance's count is the manager's
\* own reference plus one per call still running with it.
C1_ReleasedOnEveryReturn ==
    /\ \A p \in Procs :
         frame[p].pc \in {"done", "idle"} =>
           /\ LocksOf(p) = {}
           /\ frame[p].xla_device_compiler = 0
    /\ \A inst \in 1..Len(refcount) :
         refcount[inst] = 1 + Cardinality(Holders(inst))

\* a call that took its locks and its reference and then failed
C1_Witness ==
    \E p \in Procs :
      /\ frame[p].pc = "done"
      /\ frame[p].result.status = "CompileError"
      /\ Len(frame[p].lockOrder) = 2
      /\ InTrace(frame[p], "LookupOrCreate", TRUE)

AfterLockSteps == {"cache", "options", "buildargs", "compile", "export"}

\* C2: in value mode, from the success of LockVariables until the call
\* returns (at the cache lookup, the options, the descriptor building,
\* CompileFunction and BuildHLOString), the call holds the lock of every
\* variable of variable_infos.
C2_LocksHeldUntilReturn ==
    \A p \in Procs :
      LET f == frame[p] IN
      (/\ ~using_tensor_spec(f)
       /\ \/ f.pc \in AfterLockSteps
          \/ f.pc = "locked" /\ f.lock_status = "OK")
      => /\ Len(f.variable_infos) = Len(f.lockOrder)
         /\ \A k \in 1..Len(f.variable_infos) :
              varOwner[f.variable_infos[k].var] = p

\* two locks held at the last step, while another call waits for one
C2_Witness ==
    \E p, q \in Procs :
      /\ frame[p].pc = "export"
      /\ Cardinality(LocksOf(p)) = 2
      /\ frame[q].pc = "lock"

\* C3 as stated: the creation factory runs at most once for the device's
\* cache key.
C3_FactoryRunsAtMostOnce == factory_runs <= 1

\* C3, amended: at most one device compiler is ever constructed; every call
\* holding a reference holds that instance; the factory runs only while
\* there is no entry (a failed run makes none, and the next call runs the
\* factory again).
C3_SingleInstance ==
    [][ /\ Len(refcount') <= 1
        /\ Cardinality(rmgr') <= 1
        /\ \A p \in Procs : frame'[p].xla_device_compiler \in 0..Len(refcount')
        /\ (rmgr # {} => factory_runs' = factory_runs /\ rmgr' = rmgr)
        /\ factory_runs' \in {factory_runs, factory_runs + 1} ]_vars

\* two overlapping calls hold the one instance
C3_Witness ==
    /\ Len(refcount) = 1
    /\ Cardinality(Holders(1)) = 2
    /\ factory_runs = 1

\* C4: after the locking step the call either holds the lock of every
\* resource-backed argument, or the step failed and the call holds none.
C4_AllOrNothing ==
    \A p \in Procs :
      LET f == frame[p] IN
      f.pc = "locked" =>
        IF f.lock_status = "OK"
        THEN \A i \in Range(Body(f).resource_arg_indices) :
               \E k \in 1..Len(f.variable_infos) :
                 /\ f.variable_infos[k].index = i
                 /\ varOwner[f.variable_infos[k].var] = p
        ELSE LocksOf(p) = {}

\* the second acquisition failed after the first had succeeded
C4_Witness ==
    \E p \in Procs :
      /\ frame[p].pc = "locked"
      /\ frame[p].lock_status = "LockError"
      /\ Len(frame[p].lockOrder) = 1
      /\ LocksOf(p) = {}

\* C5: within one call the locks are taken in ascending order of argument
\* index.
C5_AscendingLockOrder ==
    \A p \in Procs :
      \A i, j \in 1..Len(frame[p].lockOrder) :
        i < j => frame[p].lockOrder[i] < frame[p].lockOrder[j]

C5_Witness ==
    \E p \in Procs : frame[p].lockOrder = <<0, 1>>

\* the device is not the CPU and its accelerator info has no stream
NoStreamDevice == dev.device_type # "CPU" /\ dev.accel = "nostream"

NothingInvoked(f) ==
    /\ f.trace = <<>>
    /\ f.lockOrder = <<>>
    /\ f.xla_device_compiler = 0
    /\ f.compiled = <<>>
    /\ f.builds = <<>>

BuildEvents(f) ==
    Cardinality({ i \in 1..Len(f.trace) : f.trace[i].op = "BuildExecutable" })

\* C7: a call whose stage dispatch has run invoked the Executable Builder
\* exactly once for a from-executable stage and not at all for a
\* from-program stage; no call invokes it otherwise.
C7_OneProducerPerStage ==
    \A p \in Procs :
      LET f == frame[p] IN
      /\ BuildEvents(f) = Len(f.builds)
      /\ IF f.pc = "done" /\ InTrace(f, "CompileFunction", TRUE)
         THEN Len(f.builds) = IF f.stage \in FromExecutableStages THEN 1 ELSE 0
         ELSE f.builds = <<>>

C7_Witness ==
    \E p \in Procs :
      /\ frame[p].pc = "done"
      /\ frame[p].stage = "OPTIMIZED_HLO_DOT"
      /\ frame[p].result = Result("OK", "dot graph")
      /\ Len(frame[p].builds) = 1

ArgAttrCount(fbody) == Cardinality(DOMAIN fbody.arg_attr)

LacksAnnotation(fbody) ==
    \E k \in DOMAIN fbody.arg_attr : fbody.arg_attr[k] = "None"

Incomplete(fbody) ==
    ArgAttrCount(fbody) # Arity(fbody) \/ LacksAnnotation(fbody)

Returned(o) == o.status \notin {"none", "crash"}

Complete(fbody) ==
    /\ DOMAIN fbody.arg_attr = 0..(Arity(fbody) - 1)
    /\ \A k \in DOMAIN fbody.arg_attr : fbody.arg_attr[k] \in Shapes

\* C9: on complete shape metadata the builder returns one descriptor per
\* input, in order, each of kind Parameter with the type and name of the
\* signature and the shape of the annotation of its index.
C9_CompleteYieldsDescriptors ==
    (built.status # "none" /\ Complete(fbody_in)) =>
      /\ built.status = "OK"
      /\ Len(built.args) = Arity(fbody_in)
      /\ \A i \in 1..Arity(fbody_in) :
           built.args[i] = [kind  |-> "kParameter",
                            type  |-> fbody_in.input_arg[i].type,
                            shape |-> fbody_in.arg_attr[i - 1],
                            name  |-> fbody_in.input_arg[i].name]

\* C10: every descriptor sequence handed to CompileFunction has one
\* descriptor per declared input of the function.
C10_CompiledArgsMatchArity ==
    \A p \in Procs :
      \A k \in 1..Len(frame[p].compiled) :
        Len(frame[p].compiled[k]) = Arity(Body(frame[p]).fbody)

(***************************************************************************)
(* The two calling protocols.                                              *)
(***************************************************************************)
ValueModeOps == {"Tensor", "CopyToDevice", "GetVariableInfos",
                 "LockVariables", "ValueBuilder"}

SpecModeOps == {"SpecBuilder"}

OpsOf(f) == { f.trace[i].op : i \in 1..Len(f.trace) }

\* C11: the protocol of a call is fixed by whether its input list is empty.
\* A call without inputs never fetches a tensor, copies one to the host,
\* looks up a variable, takes a lock or runs the value-mode builder; a call
\* with inputs never runs the spec-mode builder.
C11_ProtocolsExclusive ==
    \A p \in Procs :
      LET f == frame[p] IN
      /\ f.inputs_handles = <<>> =>
           /\ OpsOf(f) \cap ValueModeOps = {}
           /\ f.inputs = <<>>
           /\ f.variable_infos = <<>>
           /\ f.lockOrder = <<>>
           /\ LocksOf(p) = {}
      /\ f.inputs_handles # <<>> => OpsOf(f) \cap SpecModeOps = {}

\* a call without inputs got its descriptors from the spec-mode builder and
\* is about to compile them
C11_Witness ==
    \E p \in Procs :
      LET f == frame[p] IN
      /\ f.inputs_handles = <<>>
      /\ InTrace(f, "SpecBuilder", TRUE)
      /\ f.pc = "compile"

(***************************************************************************)
(* The order of the steps of one call.                                     *)
(***************************************************************************)
BuilderOps == {"SpecBuilder", "ValueBuilder"}

CollectionOps == {"Tensor", "CopyToDevice", "GetVariableInfos",
                  "LockVariables"}

ExportOps == {"GetProgramShape", "CreateFromProto", "BuildExecutable",
              "RenderGraph"}

\* some entry before position j is a successful call of one of `ops`
DoneBefore(f, j, ops) ==
    \E i \in 1..(j - 1) : f.trace[i].op \in ops /\ f.trace[i].ok

\* no entry before position j is a call of one of `ops`
NoneBefore(f, j, ops) ==
    \A i \in 1..(j - 1) : f.trace[i].op \notin ops

\* C12 as stated: whenever the device compiler cache is consulted, the
\* descriptor builder of the call has already run (and completed or
\* failed).
C12_BuilderBeforeCache ==
    \A p \in Procs :
      LET f == frame[p] IN
      \A j \in 1..Len(f.trace) :
        f.trace[j].op = "LookupOrCreate" => ~NoneBefore(f, j, BuilderOps)

\* C12, amended: the steps of one call occur in the order Resolver, then
\* (value mode only) input collection, variable lookup and locking, then
\* the device compiler cache get-or-create, then the compiler options, then
\* the descriptor builder (spec-mode or value-mode), then the Compilation
\* Driver, then the IR Exporter.  Each step runs only after its predecessor
\* succeeded, and the cache is consulted before any descriptor is built.
C12_PipelineOrder ==
    \A p \in Procs :
      LET f == frame[p] IN
      \A j \in 1..Len(f.trace) :
        LET op == f.trace[j].op IN
        /\ op \in CollectionOps =>
             /\ DoneBefore(f, j, {"Resolver"})
             /\ NoneBefore(f, j, {"LookupOrCreate", "CompilerOptions"}
                                   \cup BuilderOps)
        /\ op = "LookupOrCreate" =>
             /\ DoneBefore(f, j, {"Resolver"})
             /\ f.inputs_handles # <<>> => DoneBefore(f, j, {"LockVariables"})
             /\ NoneBefore(f, j, {"CompilerOptions"} \cup BuilderOps)
        /\ op = "CompilerOptions" =>
             /\ DoneBefore(f, j, {"LookupOrCreate"})
             /\ NoneBefore(f, j, BuilderOps)
        /\ op \in BuilderOps =>
             /\ DoneBefore(f, j, {"LookupOrCreate"})
             /\ DoneBefore(f, j, {"CompilerOptions"})
             /\ NoneBefore(f, j, {"CompileFunction"})
        /\ op = "CompileFunction" =>
             /\ DoneBefore(f, j, BuilderOps)
             /\ NoneBefore(f, j, ExportOps)
        /\ op \in ExportOps => DoneBefore(f, j, {"CompileFunction"})

\* a call whose descriptor builder failed after the cache had handed out the
\* device compiler
C12_Witness ==
    \E p \in Procs :
      LET f == frame[p] IN
      /\ f.pc = "done"
      /\ InTrace(f, "LookupOrCreate", TRUE)
      /\ InTrace(f, "CompilerOptions", TRUE)
      /\ \E op \in BuilderOps : f.trace[Len(f.trace)] = Ev(op, FALSE)
      /\ rmgr # {}

(***************************************************************************)
(* Error propagation.                                                      *)
(***************************************************************************)
\* the errors each collaborator can hand to GetCompilerIr
ErrorsOf(op) ==
    CASE op = "Resolver"         -> {"NotFound"}
      [] op = "Tensor"           -> {"TensorError"}
      [] op = "CopyToDevice"     -> {"CopyError"}
      [] op = "GetVariableInfos" -> {"VariableLookupError"}
      [] op = "LockVariables"    -> {"LockError"}
      [] op = "LookupOrCreate"   -> {"DeviceCompilerError"}
      [] op = "SpecBuilder"      -> {ArgAttrCountError, RetCheckFailure,
                                     BuildTensorShapeError}
      [] op = "ValueBuilder"     -> {"ArgumentError"}
      [] op = "CompileFunction"  -> {"CompileError"}
      [] op = "GetProgramShape"  -> {"ProgramShapeError"}
      [] op = "CreateFromProto"  -> {"CreateFromProtoError"}
      [] op = "BuildExecutable"  -> {"ExecutableCompileError", RetCheckFailure}
      [] op = "RenderGraph"      -> {"RenderError"}
      [] OTHER                   -> {}

\* the steps that run once per input rather than once per call
PerInputOps == {"Tensor", "CopyToDevice"}

Occurrences(f, op) == { i \in 1..Len(f.trace) : f.trace[i].op = op }

\* C13: a step that fails is the last step the call invoked; the call then
\* returns the error of that step; no step is invoked twice (the tensor
\* fetch and the host copy run at most once per input); a call that
\* returns OK saw no step fail.
C13_FailFast ==
    \A p \in Procs :
      LET f == frame[p]
          n == Len(f.trace)
      IN
      /\ \A i \in 1..n :
           ~f.trace[i].ok =>
             /\ i = n
             /\ f.pc \in {"locked", "done", "crashed"}
             /\ f.pc = "done" => f.result.status \in ErrorsOf(f.trace[i].op)
      /\ \A op \in OpsOf(f) :
           Cardinality(Occurrences(f, op)) <=
             IF op \in PerInputOps THEN Len(f.inputs_handles) ELSE 1
      /\ (f.pc = "done" /\ f.result.status = "OK") =>
           \A i \in 1..n : f.trace[i].ok

\* a call returned the error of a failed compilation without running the
\* exporter
C13_Witness ==
    \E p \in Procs :
      LET f == frame[p] IN
      /\ f.pc = "done"
      /\ f.trace # <<>>
      /\ f.trace[Len(f.trace)] = Ev("CompileFunction", FALSE)
      /\ f.result.status = "CompileError"

(***************************************************************************)
(* The choice of compiler options.                                         *)
(***************************************************************************)
OptionsChosen(f) == f.options # "none"

\* C14 as stated: the TFRT TPU options are generated exactly when no stream
\* is bound to the device, the standard options exactly when one is.
C14_TfrtTpuIffNoStream ==
    \A p \in Procs :
      LET f == frame[p] IN
      OptionsChosen(f) =>
        /\ (f.options = "GenerateTfrtTpuCompilerOptions")
             <=> (dev.accel # "stream")
        /\ (f.options = "GenerateCompilerOptions(has_ref_vars=false)")
             <=> (dev.accel = "stream")

\* C14, amended: the TFRT TPU options are generated exactly when the
\* platform device type is TPU and no stream is bound (accelerator info
\* absent, or present with a null stream); in every other case, a
\* stream-less CPU or GPU included, the standard options with
\* has_ref_vars = false are generated.  The choice depends on the device
\* only, not on the request.
C14_TfrtTpuIffTpuWithoutStream ==
    \A p \in Procs :
      LET f == frame[p] IN
      OptionsChosen(f) =>
        /\ (f.options = "GenerateTfrtTpuCompilerOptions")
             <=> (dev.device_type = "TPU" /\ dev.accel # "stream")
        /\ (f.options = "GenerateCompilerOptions(has_ref_vars=false)")
             <=> ~(dev.device_type = "TPU" /\ dev.accel # "stream")

\* a call on a device that has no stream and is not a TPU got the standard
\* options
C14_Witness ==
    \E p \in Procs :
      LET f == frame[p] IN
      /\ dev.device_type # "TPU"
      /\ dev.accel # "stream"
      /\ f.pc = "buildargs"
      /\ f.options = "GenerateCompilerOptions(has_ref_vars=false)"

(***************************************************************************)
(* The tensors collected in value mode.                                    *)
(***************************************************************************)
\* the call is past the loop of lines 220-234
Collected(f) ==
    \E i \in 1..Len(f.trace) : f.trace[i].op \in {"GetVariableInfos",
                                                  "ValueBuilder"}

\* C15: in value mode the tensor collected at position i comes from input
\* i; it is a host copy when i is a compile-time-constant index of the
\* function and the original tensor otherwise.  The sequence handed to the
\* variable lookup and to the descriptor builder has one element per
\* supplied input, in the order supplied.
C15_HostCopyIffConstant ==
    \A p \in Procs :
      LET f == frame[p] IN
      f.inputs_handles # <<>> =>
        /\ Len(f.inputs) <= Len(f.inputs_handles)
        /\ Collected(f) => Len(f.inputs) = Len(f.inputs_handles)
        /\ \A i \in 1..Len(f.inputs) :
             /\ f.inputs[i].handle = i - 1
             /\ f.inputs[i].host_copy <=>
                  \E k \in 1..Len(Library[f.func_name].constant_arg_indices) :
                    Library[f.func_name].constant_arg_indices[k] = i - 1

\* a call built its value-mode descriptors from a host copy and an original
\* tensor
C15_Witness ==
    \E p \in Procs :
      LET f == frame[p] IN
      /\ InTrace(f, "ValueBuilder", TRUE)
      /\ \E i, j \in 1..Len(f.inputs) :
           f.inputs[i].host_copy /\ ~f.inputs[j].host_copy

(***************************************************************************)
(* The executable builder.                                                 *)
(***************************************************************************)
\* C16: every BuildExecutable invocation of a call carries the embed-IR
\* flag set when the call's stage is OPTIMIZED_HLO_PROTO_SERIALIZED and
\* cleared when it is OPTIMIZED_HLO, OPTIMIZED_HLO_SERIALIZED or
\* OPTIMIZED_HLO_DOT.
C16_EmbedIrOnlyForProtoSerialized ==
    \A p \in Procs :
      LET f == frame[p] IN
      \A k \in 1..Len(f.builds) :
        /\ f.stage = "OPTIMIZED_HLO_PROTO_SERIALIZED" => f.builds[k].embed
        /\ f.stage \in {"OPTIMIZED_HLO", "OPTIMIZED_HLO_SERIALIZED",
                        "OPTIMIZED_HLO_DOT"} => ~f.builds[k].embed

\* a call for OPTIMIZED_HLO_PROTO_SERIALIZED returned the embedded proto of
\* an executable built with the flag set
C16_Witness ==
    \E p \in Procs :
      LET f == frame[p] IN
      /\ f.pc = "done"
      /\ f.stage = "OPTIMIZED_HLO_PROTO_SERIALIZED"
      /\ f.result = Result("OK", "hlo_proto bytes")
      /\ Len(f.builds) = 1
      /\ f.builds[1].embed

\* C17: BuildExecutable succeeds only when the compiler returned exactly
\* one executable; a successful compile with zero or with two or more
\* executables gives an Internal error; a failed compile gives the
\* compiler's own error.  The stage's export returns what BuildExecutable
\* failed with.
C17_ExactlyOneExecutable ==
    \A p \in Procs :
      LET f == frame[p] IN
      \A k \in 1..Len(f.builds) :
        LET b == f.builds[k] IN
        /\ b.status = "OK" <=> (b.compile.status = "OK" /\ b.compile.size = 1)
        /\ (b.compile.status = "OK" /\ b.compile.size # 1) =>
             b.status = "Internal"
        /\ b.compile.status # "OK" => b.status = b.compile.status
        /\ (f.pc = "done" /\ b.status # "OK") => f.result.status = b.status

\* a call failed with Internal because the compiler returned two
\* executables
C17_Witness ==
    \E p \in Procs :
      LET f == frame[p] IN
      /\ f.pc = "done"
      /\ Len(f.builds) = 1
      /\ f.builds[1].compile = [status |-> "OK", size |-> 2]
      /\ f.result.status = "Internal"

(***************************************************************************)
(* Calls waiting for each other inside LockVariables.                      *)
(***************************************************************************)
\* the call is inside LockVariables with a lock still to take
Acquiring(p) == frame[p].pc = "lock" /\ NotHeld(p, frame[p]) # {}

\* the variable whose lock call p takes next
NextVariable(p) ==
    LET f == frame[p] IN
    f.variable_infos[NextToLock(f.variable_infos, NotHeld(p, f))].var

\* call p waits for a lock that call q holds
WaitsFor(p, q) ==
    /\ p # q
    /\ Acquiring(p)
    /\ varOwner[NextVariable(p)] = q

\* a set of calls each waiting for a lock held by another call of the set:
\* none of them ever leaves LockVariables
Deadlocked(S) ==
    /\ S # {}
    /\ \A p \in S : \E q \in S : WaitsFor(p, q)

\* C18: concurrent value-mode calls over overlapping variable sets never
\* block each other for good: no set of calls is ever such that each waits
\* inside LockVariables for a lock another call of the set holds, whatever
\* the argument positions of the shared variables.
C18_DeadlockFree ==
    \A S \in SUBSET Procs : ~Deadlocked(S)

(***************************************************************************)
(* The shapes vector of the spec-mode builder.                             *)
(***************************************************************************)
\* C19: when the annotation count equals the arity, every shapes[idx] the
\* loop forms has idx in [0, arity) and idx below the size of the vector,
\* so every slot read for a descriptor was written from an annotation.
C19_ShapeWritesInBounds ==
    (built # NoOutcome /\ ArgAttrCount(fbody_in) = Arity(fbody_in)) =>
      \A idx \in built.writes :
        /\ idx >= 0
        /\ idx < Arity(fbody_in)
        /\ idx < ShapesSize

(***************************************************************************)
(* The accelerator device info.                                            *)
(***************************************************************************)
\* a device other than the host CPU without accelerator device info
AbsentInfoDevice == dev.device_type # "CPU" /\ dev.accel = "absent"

\* C20: on a non-CPU device without accelerator device info, the stage
\* check and the stream lookup both see "no stream bound": the call does
\* not trap in the stage check, a stage that needs a stream is rejected
\* with Internal before any step runs, and the options are those of a
\* device without a stream.
C20_AbsentInfoIsNoStream ==
    \A p \in Procs :
      LET f == frame[p] IN
      (AbsentInfoDevice /\ f.pc \notin {"idle", "check"}) =>
        /\ ~(f.pc = "crashed" /\ f.trace = <<>>)
        /\ f.stage \notin {"HLO", "HLO_NO_METADATA", "HLO_SERIALIZED"} =>
             /\ f.pc = "done"
             /\ f.result.status = "Internal"
             /\ f.trace = <<>>
        /\ OptionsChosen(f) =>
             f.options = IF dev.device_type = "TPU"
                         THEN "GenerateTfrtTpuCompilerOptions"
                         ELSE "GenerateCompilerOptions(has_ref_vars=false)"

=============================================================================
